---- MODULE Spec2Model ----
(***************************************************************************)
(* Model of scripts/loadtest_transcode.py: the command line entry point    *)
(* main, the run coordinator run_load_test with its semaphore-bounded      *)
(* fan-out (bounded_request, asyncio.gather), the request invoker          *)
(* transcode_request and the statistics reduction.                         *)
(*                                                                         *)
(* The asyncio event loop is modelled as a FIFO queue of runnable tasks    *)
(* (ready); the network is the only source of nondeterminism: which        *)
(* in-flight request resolves next, and how.  Rational numbers (rates,     *)
(* means) are kept exact as normalised num/den records.                    *)
(***************************************************************************)
EXTENDS Integers, Sequences, FiniteSets, TLC

(* ---------------- bounds of the model ---------------- *)
MaxRaw == 3
MaxIds == 2
MaxRepeat == 2
MaxConc == 2
MaxWork == 4

\* characters of the --ids argument
Chars == {"a", ",", " "}
\* identifiers handed to run_load_test by a direct caller
DirectIds == {<<"a">>, <<"b">>}
\* status codes a response can carry
StatusCodes == {200, 500}
\* measured latencies, in clock ticks: of a 200 response, of any other
\* response, of a request that got no response (a timeout takes longest)
Latencies == {1, 2}
FailLatencies == {1}
ErrorLatencies == {3}
\* measured duration of the whole run; it spans every request
TotalTimes == {4}

SeqsUpTo(S, n) == UNION {[1..k -> S] : k \in 0..n}

(* ---------------- exact arithmetic ---------------- *)
RECURSIVE Gcd(_, _)
Gcd(a, b) == IF b = 0 THEN a ELSE Gcd(b, a % b)

\* n / d for n >= 0, d > 0, in lowest terms
Rat(n, d) == LET g == Gcd(n, d) IN [num |-> n \div g, den |-> d \div g]

Zero == Rat(0, 1)

(* ---------------- main: parsing of --ids ---------------- *)
\* str.split(","): the fields between commas, empty fields included
RECURSIVE split(_)
split(s) ==
    IF \A k \in 1..Len(s) : s[k] # ","
    THEN <<s>>
    ELSE LET p == CHOOSE k \in 1..Len(s) : s[k] = "," /\ \A m \in 1..(k - 1) : s[m] # ","
         IN <<SubSeq(s, 1, p - 1)>> \o split(SubSeq(s, p + 1, Len(s)))

\* str.strip(): leading and trailing whitespace removed
RECURSIVE strip(_)
strip(s) ==
    IF s = <<>> THEN s
    ELSE IF Head(s) = " " THEN strip(Tail(s))
    ELSE IF s[Len(s)] = " " THEN strip(SubSeq(s, 1, Len(s) - 1))
    ELSE s

\* [id.strip() for id in args.ids.split(",") if id.strip()]
RECURSIVE strip_nonempty(_)
strip_nonempty(fs) ==
    IF fs = <<>> THEN <<>>
    ELSE IF strip(Head(fs)) # <<>>
         THEN <<strip(Head(fs))>> \o strip_nonempty(Tail(fs))
         ELSE strip_nonempty(Tail(fs))

parse_ids(raw) == strip_nonempty(split(raw))

(* ---------------- run_load_test: the worklist ---------------- *)
RECURSIVE list_times(_, _)
list_times(l, n) == IF n <= 0 THEN <<>> ELSE l \o list_times(l, n - 1)

\* faulty variant: the repetitions are interleaved instead of concatenated
RECURSIVE interleaved(_, _)
interleaved(l, n) ==
    IF l = <<>> THEN <<>> ELSE list_times(<<Head(l)>>, n) \o interleaved(Tail(l), n)

worklist_interleaved(ids, rep) == IF rep > 1 THEN interleaved(ids, rep) ELSE ids

\* all_meeting_ids = meeting_ids * repeat if repeat > 1 else meeting_ids
worklist(ids, rep) == IF rep > 1 THEN list_times(ids, rep) ELSE ids

(* ---------------- transcode_request: the outcome of one request ---------------- *)
\* gather's slot of a task that has not finished
NoResult == [kind |-> "none"]

\* the dict returned after a response was received
response_result(status, lat) ==
    [kind |-> "dict", success |-> (status = 200), status_code |-> status,
     latency |-> lat, error |-> FALSE]

\* the dict returned by the except Exception branch (no response obtained)
error_result(lat) ==
    [kind |-> "dict", success |-> FALSE, status_code |-> 0,
     latency |-> lat, error |-> TRUE]

\* a fault that is no Exception (asyncio.CancelledError, any other
\* BaseException) passes the except clause and ends the task; gather with
\* return_exceptions=True stores the exception object as the task's result
escaped_result == [kind |-> "exception"]

Outcomes ==
    {response_result(200, l) : l \in Latencies}
    \cup {response_result(st, l) : st \in StatusCodes \ {200}, l \in FailLatencies}
    \cup {error_result(l) : l \in ErrorLatencies}
    \cup {escaped_result}

(* ---------------- run_load_test: the reduction ---------------- *)
isinstance_dict(r) == r.kind = "dict"

is_successful(r) == isinstance_dict(r) /\ r.success
is_failed(r) == isinstance_dict(r) /\ ~r.success
is_failed_response(r) == isinstance_dict(r) /\ ~r.success /\ r.status_code # 0
is_exception(r) == ~isinstance_dict(r)

successful_results(results) == SelectSeq(results, is_successful)

\* faulty variant: only non-200 responses are kept
failed_results_responses(results) == SelectSeq(results, is_failed_response)

failed_results(results) == SelectSeq(results, is_failed)

exceptions(results) == SelectSeq(results, is_exception)

\* faulty variant: the latencies of every dict result, successful or not
latencies_all(results) ==
    LET ds == SelectSeq(results, isinstance_dict)
    IN [k \in 1..Len(ds) |-> ds[k].latency]

\* latencies = [r["latency"] for r in successful_results]
latencies_of(results) ==
    LET ss == successful_results(results)
    IN [k \in 1..Len(ss) |-> ss[k].latency]

RECURSIVE sum(_)
sum(l) == IF l = <<>> THEN 0 ELSE Head(l) + sum(Tail(l))

RECURSIVE insert(_, _)
insert(x, l) ==
    IF l = <<>> THEN <<x>>
    ELSE IF x <= Head(l) THEN <<x>> \o l
    ELSE <<Head(l)>> \o insert(x, Tail(l))

RECURSIVE sorted(_)
sorted(l) == IF l = <<>> THEN <<>> ELSE insert(Head(l), sorted(Tail(l)))

min(l) == sorted(l)[1]
max(l) == sorted(l)[Len(l)]

\* statistics.mean
mean(l) == Rat(sum(l), Len(l))

\* statistics.median: the middle value, or the mean of the two middle values
median(l) ==
    LET d == sorted(l)
        n == Len(l)
    IN IF n % 2 = 1
       THEN Rat(d[(n \div 2) + 1], 1)
       ELSE Rat(d[n \div 2] + d[(n \div 2) + 1], 2)

\* statistics.quantiles(data, n=n)[i - 1], method "exclusive"
quantile(l, n, i) ==
    LET d == sorted(l)
        ld == Len(l)
        m == ld + 1
        j0 == (i * m) \div n
        j == IF j0 < 1 THEN 1 ELSE IF j0 > ld - 1 THEN ld - 1 ELSE j0
        delta == i * m - j * n
    IN Rat(d[j] * (n - delta) + d[j + 1] * delta, n)

latency_stats(lats) ==
    [min |-> IF lats # <<>> THEN Rat(min(lats), 1) ELSE Zero,
     max |-> IF lats # <<>> THEN Rat(max(lats), 1) ELSE Zero,
     mean |-> IF lats # <<>> THEN mean(lats) ELSE Zero,
     median |-> IF lats # <<>> THEN median(lats) ELSE Zero,
     p95 |-> IF Len(lats) >= 20 THEN quantile(lats, 20, 19)
             ELSE IF lats # <<>> THEN Rat(max(lats), 1) ELSE Zero,
     p99 |-> IF Len(lats) >= 100 THEN quantile(lats, 100, 99)
             ELSE IF lats # <<>> THEN Rat(max(lats), 1) ELSE Zero]

NoStats == [kind |-> "none"]

\* the stats dict, for total_requests > 0 and total_time > 0
compute_stats(results, total_requests, total_time) ==
    [kind |-> "stats",
     total_requests |-> total_requests,
     successful |-> Len(successful_results(results)),
     failed |-> Len(failed_results(results)),
     exceptions |-> Len(exceptions(results)),
     success_rate |-> Rat(Len(successful_results(results)) * 100, total_requests),
     total_time |-> total_time,
     requests_per_second |-> Rat(total_requests, total_time),
     latency_stats |-> latency_stats(latencies_of(results))]

(* ---------------- state ---------------- *)
VARIABLES
    entry,            \* "main": run from the command line; "run_load_test": called directly
    args_ids,         \* args.ids, the raw --ids string
    meeting_ids,      \* the identifier list handed to run_load_test
    concurrency,      \* args.concurrency
    repeat,           \* args.repeat
    pc,               \* position of the driver: main, run_load_test, gather, print_results, done
    signal,           \* how the run ended: "none" (running), "ok" (normal return, exit
                      \* status 0), "error" (uncaught exception, non-zero exit status)
    output,           \* what was printed last: "none", "error_message", "report"
    all_meeting_ids,  \* the worklist
    total_requests,
    sem_value,        \* semaphore._value
    waiters,          \* semaphore._waiters, tasks in arrival order
    tpc,              \* per task: created, waiting, woken, inflight, ioready, done
    ready,            \* the event loop's FIFO queue of runnable tasks
    results,          \* gather's result slots, in worklist order
    issued,           \* number of client.post calls started
    stats             \* the value run_load_test returned

vars == <<entry, args_ids, meeting_ids, concurrency, repeat, pc, signal, output,
          all_meeting_ids, total_requests, sem_value, waiters, tpc, ready,
          results, issued, stats>>

inputs == <<entry, args_ids, concurrency, repeat>>

Tasks == 1..Len(all_meeting_ids)

(* ---------------- asyncio.Semaphore ---------------- *)
\* faulty variant: the gate closes one acquisition too late
locked_late(value, ws) == value < 0

\* Semaphore.locked(); no waiter of this program is ever cancelled
locked(value, ws) == value = 0 \/ ws # <<>>

\* the positions of the waiters whose future is not done
pending(st) == {k \in 1..Len(st.waiters) : st.tpc[st.waiters[k]] = "waiting"}

\* faulty variant: the most recent waiter is woken
last_pending(st) == CHOOSE k \in pending(st) : \A m \in pending(st) : m <= k

\* for fut in self._waiters: if not fut.done(): the first one
first_pending(st) == CHOOSE k \in pending(st) : \A m \in pending(st) : k <= m

\* Semaphore._wake_up_next(): hand the unit to the first waiter that is not
\* done; set_result schedules that task on the loop
wake_up_next(st) ==
    IF pending(st) = {} THEN st
    ELSE LET t == st.waiters[first_pending(st)]
         IN [st EXCEPT !.value = @ - 1,
                       !.tpc = [@ EXCEPT ![t] = "woken"],
                       !.ready = Append(@, t)]

\* faulty variant: the counter is incremented and nobody is woken
release_silent(st) == [st EXCEPT !.value = @ + 1]

\* Semaphore.release()
release(st) == wake_up_next([st EXCEPT !.value = @ + 1])

\* faulty variant: the unit is given back only when the body returned a value
aexit_on_return(st, outcome) == IF outcome.kind = "exception" THEN st ELSE release(st)

\* async with semaphore: __aexit__ releases however the body ended
aexit(st, outcome) == release(st)

\* faulty variant: gather resumes the driver as soon as one task has finished
gather_any(t) == \E i \in DOMAIN t : t[i] = "done"

\* asyncio.gather: the awaited future completes when every task has finished
gather_finished(t) == \A i \in DOMAIN t : t[i] = "done"

sem == [value |-> sem_value, waiters |-> waiters, tpc |-> tpc, ready |-> ready]

set_sem(st) ==
    /\ sem_value' = st.value
    /\ waiters' = st.waiters
    /\ tpc' = st.tpc
    /\ ready' = st.ready

remove(ws, t) == SelectSeq(ws, LAMBDA x : x # t)

(* ---------------- initial states ---------------- *)
Init ==
    /\ entry \in {"main", "run_load_test"}
    /\ concurrency \in (-1)..MaxConc
    /\ repeat \in 0..MaxRepeat
    /\ \/ /\ entry = "main"
          /\ args_ids \in SeqsUpTo(Chars, MaxRaw)
          /\ Len(parse_ids(args_ids)) <= MaxIds
          /\ Len(worklist(parse_ids(args_ids), repeat)) <= MaxWork
          /\ meeting_ids = <<>>
          /\ pc = "main"
       \/ /\ entry = "run_load_test"
          /\ args_ids = <<>>
          /\ meeting_ids \in SeqsUpTo(DirectIds, MaxIds)
          /\ Len(worklist(meeting_ids, repeat)) <= MaxWork
          /\ pc = "run_load_test"
    /\ signal = "none"
    /\ output = "none"
    /\ all_meeting_ids = <<>>
    /\ total_requests = 0
    /\ sem_value = 0
    /\ waiters = <<>>
    /\ tpc = <<>>
    /\ ready = <<>>
    /\ results = <<>>
    /\ issued = 0
    /\ stats = NoStats

(* ---------------- main ---------------- *)
\* no identifier is left: the message is printed and main returns
main_no_ids ==
    /\ pc = "main"
    /\ parse_ids(args_ids) = <<>>
    /\ output' = "error_message"
    /\ pc' = "done"
    /\ signal' = "ok"
    /\ UNCHANGED <<inputs, meeting_ids, all_meeting_ids, total_requests, sem_value,
                   waiters, tpc, ready, results, issued, stats>>

\* the identifiers are parsed and run_load_test is called
main_run ==
    /\ pc = "main"
    /\ parse_ids(args_ids) # <<>>
    /\ meeting_ids' = parse_ids(args_ids)
    /\ pc' = "run_load_test"
    /\ UNCHANGED <<inputs, signal, output, all_meeting_ids, total_requests, sem_value,
                   waiters, tpc, ready, results, issued, stats>>

\* print_results(stats), then main returns
print_results ==
    /\ pc = "print_results"
    /\ output' = "report"
    /\ pc' = "done"
    /\ signal' = "ok"
    /\ UNCHANGED <<inputs, meeting_ids, all_meeting_ids, total_requests, sem_value,
                   waiters, tpc, ready, results, issued, stats>>

(* ---------------- run_load_test ---------------- *)
\* asyncio.Semaphore(concurrency) raises ValueError for a negative value
semaphore_invalid ==
    /\ pc = "run_load_test"
    /\ concurrency < 0
    /\ all_meeting_ids' = worklist(meeting_ids, repeat)
    /\ total_requests' = Len(worklist(meeting_ids, repeat))
    /\ pc' = "done"
    /\ signal' = "error"
    /\ UNCHANGED <<inputs, meeting_ids, output, sem_value, waiters, tpc, ready,
                   results, issued, stats>>

\* the worklist is built, the semaphore created, one task per work item is
\* handed to gather and the driver awaits them
dispatch ==
    /\ pc = "run_load_test"
    /\ concurrency >= 0
    /\ LET wl == worklist(meeting_ids, repeat)
       IN /\ all_meeting_ids' = wl
          /\ total_requests' = Len(wl)
          /\ tpc' = [i \in 1..Len(wl) |-> "created"]
          /\ ready' = [i \in 1..Len(wl) |-> i]
          /\ results' = [i \in 1..Len(wl) |-> NoResult]
    /\ sem_value' = concurrency
    /\ waiters' = <<>>
    /\ pc' = "gather"
    /\ UNCHANGED <<inputs, meeting_ids, signal, output, issued, stats>>

\* bounded_request, first step: the semaphore is free; the unit is taken and
\* transcode_request issues its POST
task_acquire ==
    /\ pc = "gather"
    /\ ready # <<>>
    /\ LET i == Head(ready)
       IN /\ tpc[i] = "created"
          /\ ~locked(sem_value, waiters)
          /\ sem_value' = sem_value - 1
          /\ tpc' = [tpc EXCEPT ![i] = "inflight"]
    /\ ready' = Tail(ready)
    /\ issued' = issued + 1
    /\ UNCHANGED <<inputs, meeting_ids, pc, signal, output, all_meeting_ids,
                   total_requests, waiters, results, stats>>

\* bounded_request, first step: the semaphore is locked; the task queues
task_wait ==
    /\ pc = "gather"
    /\ ready # <<>>
    /\ LET i == Head(ready)
       IN /\ tpc[i] = "created"
          /\ locked(sem_value, waiters)
          /\ waiters' = Append(waiters, i)
          /\ tpc' = [tpc EXCEPT ![i] = "waiting"]
    /\ ready' = Tail(ready)
    /\ UNCHANGED <<inputs, meeting_ids, pc, signal, output, all_meeting_ids,
                   total_requests, sem_value, results, issued, stats>>

\* a woken waiter resumes in acquire: it leaves the queue, passes a spare unit
\* on, and transcode_request issues its POST
task_resume ==
    /\ pc = "gather"
    /\ ready # <<>>
    /\ LET i == Head(ready)
           st0 == [sem EXCEPT !.waiters = remove(@, i),
                              !.ready = Tail(@),
                              !.tpc = [@ EXCEPT ![i] = "inflight"]]
       IN /\ tpc[i] = "woken"
          /\ set_sem(IF st0.value > 0 THEN wake_up_next(st0) ELSE st0)
    /\ issued' = issued + 1
    /\ UNCHANGED <<inputs, meeting_ids, pc, signal, output, all_meeting_ids,
                   total_requests, results, stats>>

\* the network resolves the request of task i (response, error or timeout):
\* the task becomes runnable
respond(i) ==
    /\ pc = "gather"
    /\ i \in DOMAIN tpc
    /\ tpc[i] = "inflight"
    /\ tpc' = [tpc EXCEPT ![i] = "ioready"]
    /\ ready' = Append(ready, i)
    /\ UNCHANGED <<inputs, meeting_ids, pc, signal, output, all_meeting_ids,
                   total_requests, sem_value, waiters, results, issued, stats>>

\* transcode_request ends with outcome o, the semaphore is left and the
\* task's result is stored in its slot
task_finish ==
    /\ pc = "gather"
    /\ ready # <<>>
    /\ LET i == Head(ready)
       IN /\ tpc[i] = "ioready"
          /\ \E o \in Outcomes :
                /\ results' = [results EXCEPT ![i] = o]
                /\ set_sem(aexit([sem EXCEPT !.ready = Tail(@),
                                             !.tpc = [@ EXCEPT ![i] = "done"]], o))
    /\ UNCHANGED <<inputs, meeting_ids, pc, signal, output, all_meeting_ids,
                   total_requests, issued, stats>>

\* gather has returned an empty result list: len(successful_results) /
\* total_requests raises ZeroDivisionError
reduce_zero_division ==
    /\ pc = "gather"
    /\ gather_finished(tpc)
    /\ total_requests = 0
    /\ pc' = "done"
    /\ signal' = "error"
    /\ UNCHANGED <<inputs, meeting_ids, output, all_meeting_ids, total_requests,
                   sem_value, waiters, tpc, ready, results, issued, stats>>

\* gather has returned: the end time is taken, the results are partitioned
\* and the statistics returned
reduce ==
    /\ pc = "gather"
    /\ gather_finished(tpc)
    /\ total_requests # 0
    /\ \E total_time \in TotalTimes :
          stats' = compute_stats(results, total_requests, total_time)
    /\ pc' = IF entry = "main" THEN "print_results" ELSE "done"
    /\ signal' = IF entry = "main" THEN "none" ELSE "ok"
    /\ UNCHANGED <<inputs, meeting_ids, output, all_meeting_ids, total_requests,
                   sem_value, waiters, tpc, ready, results, issued>>

Next ==
    \/ main_no_ids
    \/ main_run
    \/ semaphore_invalid
    \/ dispatch
    \/ task_acquire
    \/ task_wait
    \/ task_resume
    \/ \E i \in 1..MaxWork : respond(i)
    \/ task_finish
    \/ reduce_zero_division
    \/ reduce
    \/ print_results

Spec == Init /\ [][Next]_vars

\* run_load_test on its own, called directly
InitRun == Init /\ entry = "run_load_test"

NextRun ==
    \/ semaphore_invalid
    \/ dispatch
    \/ task_acquire
    \/ task_wait
    \/ task_resume
    \/ \E i \in 1..MaxWork : respond(i)
    \/ task_finish
    \/ reduce_zero_division
    \/ reduce

\* the event loop runs every runnable task, every issued request resolves
\* and the driver runs whenever it can: a run never stops while a step is
\* possible.  No step can be repeated (every action moves a task or the
\* driver forward), so this is the same as weak fairness of each action.
FairRunSpec == InitRun /\ [][NextRun]_vars /\ WF_vars(NextRun)

TypeOK ==
    /\ pc \in {"main", "run_load_test", "gather", "print_results", "done"}
    /\ signal \in {"none", "ok", "error"}
    /\ output \in {"none", "error_message", "report"}
    /\ \A i \in DOMAIN tpc :
          tpc[i] \in {"created", "waiting", "woken", "inflight", "ioready", "done"}

(* ---------------- properties ---------------- *)
\* tasks that hold a unit of the semaphore with their request in flight
InFlight == {i \in DOMAIN tpc : tpc[i] \in {"inflight", "ioready"}}

\* tasks that own a unit: handed one by a release, or inside transcode_request
Holders == {i \in DOMAIN tpc : tpc[i] \in {"woken", "inflight", "ioready"}}

Started(i) == tpc[i] \in {"inflight", "ioready", "done"}

EmptyIds == IF entry = "main" THEN parse_ids(args_ids) = <<>> ELSE meeting_ids = <<>>

Count(P(_)) == Cardinality({i \in DOMAIN results : P(results[i])})

got_non200_response(r) == r.kind = "dict" /\ r.status_code # 0 /\ r.status_code # 200
got_no_response(r) == r.kind = "exception" \/ (r.kind = "dict" /\ r.status_code = 0)

\* C1: with concurrency >= 1, the number of work items that have acquired the
\* semaphore and not yet released it never exceeds concurrency.
C1_InFlightBounded ==
    concurrency >= 1 => Cardinality(InFlight) <= concurrency

\* the ceiling is reached while another work item waits for the semaphore
C1_Witness ==
    /\ concurrency >= 1
    /\ Cardinality(InFlight) = concurrency
    /\ \E i \in DOMAIN tpc : tpc[i] = "waiting"

\* C2: the statistics exist only in states where every work item of the
\* worklist has completed with an outcome; none waits or is in flight.
C2_ReducedOnlyWhenAllDone ==
    stats # NoStats =>
        /\ Len(results) = total_requests
        /\ \A i \in DOMAIN tpc : tpc[i] = "done" /\ results[i] # NoResult
        /\ waiters = <<>>
        /\ ready = <<>>

\* statistics of a run in which some work item had to wait for the semaphore
C2_Witness ==
    /\ stats # NoStats
    /\ concurrency >= 1
    /\ total_requests > concurrency

\* C3: in the statistics every work item is counted in exactly one bucket:
\* successful + failed + exceptions = total_requests.
C3_BucketsSumToTotal ==
    stats # NoStats =>
        stats.successful + stats.failed + stats.exceptions = stats.total_requests

\* statistics of a run that mixed a 200, a non-200, a transport error and an
\* escaped fault
C3_Witness ==
    /\ stats # NoStats
    /\ \E i \in DOMAIN results : is_successful(results[i])
    /\ \E i \in DOMAIN results : got_non200_response(results[i])
    /\ \E i \in DOMAIN results : results[i].kind = "dict" /\ results[i].status_code = 0
    /\ \E i \in DOMAIN results : is_exception(results[i])

\* C4 (as claimed): 'failed' is the number of requests that received a
\* non-200 response and 'exceptions' the number that obtained no response.
C4_BucketsByCause ==
    stats # NoStats =>
        /\ stats.failed = Count(got_non200_response)
        /\ stats.exceptions = Count(got_no_response)

\* C5: however an invocation ends, its unit of the budget is given back
\* (value plus units owned stays equal to concurrency), no sibling's state or
\* outcome is touched except that a waiter may be woken, the batch goes on,
\* and the driver leaves gather only when every work item has been admitted
\* and has its own outcome.
C5_FailureIsolation ==
    [][/\ pc' = "gather" => sem_value' + Cardinality(Holders') = concurrency
       /\ \A i \in DOMAIN tpc :
             (pc = "gather" /\ tpc[i] = "ioready" /\ tpc'[i] = "done") =>
                /\ pc' = "gather"
                /\ i \notin Holders'
                /\ \A j \in DOMAIN tpc \ {i} :
                      /\ results'[j] = results[j]
                      /\ tpc'[j] = tpc[j] \/ (tpc[j] = "waiting" /\ tpc'[j] = "woken")
       /\ (pc = "gather" /\ pc' # "gather" /\ total_requests > 0) =>
             /\ issued = total_requests
             /\ \A j \in DOMAIN results : results[j] # NoResult
      ]_vars

\* with one unit of budget, an invocation ended with an escaped fault and a
\* later work item was admitted afterwards and got its own outcome
C5_Witness ==
    /\ concurrency = 1
    /\ stats # NoStats
    /\ \E i, j \in DOMAIN results :
          /\ i < j
          /\ results[i] = escaped_result
          /\ results[j].kind = "dict"

\* C6 (as claimed): with no identifier left, no request is issued, no
\* statistics are reported and the run ends with an error signal.
C6_EmptyIdsRejected ==
    EmptyIds =>
        /\ issued = 0
        /\ stats = NoStats
        /\ output # "report"
        /\ pc = "done" => signal = "error"

\* C7: for a non-empty identifier list and repeat >= 1 the worklist is the
\* list concatenated repeat times, total_requests = len(ids) * repeat, and a
\* run that returns statistics has started exactly that many requests.
C7_WorklistIsRepetition ==
    (meeting_ids # <<>> /\ repeat >= 1 /\ pc \notin {"main", "run_load_test"}) =>
        LET n == Len(meeting_ids) IN
        /\ Len(all_meeting_ids) = n * repeat
        /\ \A k \in 1..(n * repeat) : all_meeting_ids[k] = meeting_ids[((k - 1) % n) + 1]
        /\ total_requests = n * repeat
        /\ issued <= n * repeat
        /\ stats # NoStats => issued = n * repeat /\ stats.total_requests = n * repeat

\* a finished run over two different identifiers repeated twice
C7_Witness ==
    /\ stats # NoStats
    /\ repeat = 2
    /\ Len(meeting_ids) = 2
    /\ meeting_ids[1] # meeting_ids[2]

NoSuccess ==
    /\ results # <<>>
    /\ \A i \in DOMAIN results : results[i] # NoResult /\ ~is_successful(results[i])

\* C8: a run that dispatched and in which no request succeeded returns
\* statistics without raising, with successful = 0, success_rate = 0 and
\* every latency field 0.
C8_NoSuccessAllZero ==
    (pc \in {"print_results", "done"} /\ NoSuccess) =>
        /\ signal # "error"
        /\ stats # NoStats
        /\ stats.successful = 0
        /\ stats.success_rate = Zero
        /\ \A f \in {"min", "max", "mean", "median", "p95", "p99"} :
              stats.latency_stats[f] = Zero

\* a finished run whose requests ended in a non-200 response and in a
\* transport error
C8_Witness ==
    /\ pc = "done"
    /\ NoSuccess
    /\ \E i \in DOMAIN results : got_non200_response(results[i])
    /\ \E i \in DOMAIN results : results[i].kind = "dict" /\ results[i].status_code = 0

\* C9: with a non-empty worklist and concurrency >= 1, under fair scheduling
\* and with every request resolving, run_load_test eventually returns the
\* statistics, every work item having been admitted and having an outcome.
C9_RunCompletes ==
    (pc = "run_load_test" /\ meeting_ids # <<>> /\ concurrency >= 1)
        ~> /\ stats # NoStats
           /\ issued = total_requests
           /\ \A i \in DOMAIN results : results[i] # NoResult

\* a returned run in which at least two work items had to queue
C9_Witness ==
    /\ stats # NoStats
    /\ concurrency >= 1
    /\ total_requests >= concurrency + 2
    /\ issued = total_requests

\* C10: a work item never starts its request before every earlier item of
\* the worklist has started its own.
C10_AdmissionInOrder ==
    \A i, j \in DOMAIN tpc : (i < j /\ Started(j)) => Started(i)

\* a later item has finished while an earlier one is still in flight and a
\* further one still waits
C10_Witness ==
    \E i, j, k \in DOMAIN tpc :
        /\ i < j /\ j < k
        /\ tpc[i] = "inflight"
        /\ tpc[j] = "done"
        /\ tpc[k] = "waiting"

====
